---- MODULE Spec2Model ----
(***************************************************************************)
(* MiniCon: the container lifecycle engine.                                *)
(*                                                                         *)
(* Specification Spec models ContainerManager (src/container/manager.py),  *)
(* ContainerRegistry (src/container/registry.py) and the parts of          *)
(* NamespaceOrchestrator (src/namespace/orchestrator.py) the manager       *)
(* calls: wait_for_exit, terminate, cleanup_resources.  One caller thread  *)
(* runs create / start / stop / remove; every successful start spawns one  *)
(* monitor thread.  Nothing in the source takes a lock, so every statement *)
(* that touches shared state is a step of its own.                         *)
(*                                                                         *)
(* Specification SpecProc models one run of                                *)
(* NamespaceOrchestrator.create_container_process together with the child  *)
(* it forks (src/namespace/handlers/pid_namespace.py, user_namespace.py).  *)
(*                                                                         *)
(* Specification SpecCreate models ContainerManager.create with its        *)
(* arguments: the validators of src/utils/security.py, the id, the root    *)
(* filesystem and the Container that is saved.  In Spec a create is one    *)
(* that passed validation, and a container is its state, PID, exit code    *)
(* and timestamps.                                                         *)
(*                                                                         *)
(* Specification SpecRegistry models the calls of ContainerRegistry made   *)
(* one after the other by a single thread, with what they return.          *)
(*                                                                         *)
(* Specification SpecJson models Container.to_json and Container.from_json *)
(* (src/container/model.py) over a sample of containers.                   *)
(***************************************************************************)
EXTENDS Integers, Sequences, FiniteSets, TLC

\* ---------------------------------------------------------------- bounds
\* Number of distinct 8-character prefixes uuid4 yields in the model.
NumIds == 2
\* Number of container processes forked over a run.
MaxStarts == 1
\* Number of times the runtime dies and a new ContainerManager is built.
MaxRestarts == 1
\* Number of create calls over a run.
MaxCreates == 2
\* Number of times makedirs/open fails in _save_to_file over a run.
MaxIoErrors == 1

IDs == 1..NumIds
Slots == 1..MaxStarts
\* Thread 0 is the caller; thread k > 0 is the monitor spawned by the k-th fork.
Caller == 0
Threads == 0..MaxStarts

\* ---------------------------------------------------------------- model.py
CREATED == "CREATED"
RUNNING == "RUNNING"
EXITED == "EXITED"
State == {CREATED, RUNNING, EXITED}

\* State(str, Enum): the value of each member.
StateValue(s) ==
    CASE s = CREATED -> "created"
      [] s = RUNNING -> "running"
      [] s = EXITED -> "exited"

\* State("created") etc.: the member with that value.
StateOf(v) ==
    CASE v = "created" -> CREATED
      [] v = "running" -> RUNNING
      [] v = "exited" -> EXITED

\* process_id None is 0; exit_code defaults to 0.
NoPid == 0

\* An Optional[datetime]: None, or the datetime of instant v.  The ISO 8601
\* text of a datetime is a string, which is not a datetime.
NoDate == [type |-> "None", v |-> 0]
DateTime(n) == [type |-> "datetime", v |-> n]
DateFields == {"created_at", "started_at", "exited_at"}

\* The instant model.py was imported: line 52 evaluates datetime.now() once,
\* when the class is defined, and every Container built without created_at
\* gets that value.
ImportTime == DateTime(0)

\* Container(...) as ContainerManager.create builds it: defaults of the dataclass.
NewContainer ==
    [state |-> CREATED, process_id |-> NoPid, exit_code |-> 0,
     created_at |-> ImportTime, started_at |-> NoDate, exited_at |-> NoDate]

\* An isoformat that keeps nothing of the instant.
isoformat_lossy(d) == [type |-> "str", v |-> 0]

\* datetime.isoformat() and datetime.fromisoformat(text).
isoformat(d) == [type |-> "str", v |-> d.v]
fromisoformat(t) == [type |-> "datetime", v |-> t.v]

\* asdict(self) with every datetime replaced by its ISO text and the Enum
\* by its value (lines 66-72).
to_dict(c) ==
    [f \in DOMAIN c |->
        IF f \in DateFields
        THEN IF c[f].type = "datetime" THEN isoformat(c[f]) ELSE c[f]
        ELSE IF f = "state" THEN StateValue(c[f]) ELSE c[f]]

\* cls(**data) with the state string turned back into the Enum and every
\* date field that holds a string parsed (lines 88-96).
from_dict(d) ==
    [f \in DOMAIN d |->
        IF f \in DateFields
        THEN IF d[f].type = "str" THEN fromisoformat(d[f]) ELSE d[f]
        ELSE IF f = "state" THEN StateOf(d[f]) ELSE d[f]]

\* ---------------------------------------------------------------- dicts
EmptyMap == [x \in {} |-> 0]

\* d[k] = v
DictSet(d, k, v) == [x \in DOMAIN d \cup {k} |-> IF x = k THEN v ELSE d[x]]

\* A deletion that leaves the dictionary as it was.
DictKeep(d, k) == d

\* del d[k] / d.pop(k, None)
DictDel(d, k) == [x \in DOMAIN d \ {k} |-> d[x]]

\* ---------------------------------------------------------------- files
Absent == [kind |-> "absent", data |-> EmptyMap]
\* A file that exists but does not hold a whole JSON document (just opened
\* with "w", or cut short).
Partial == [kind |-> "partial", data |-> EmptyMap]
Json(data) == [kind |-> "json", data |-> data]

VARIABLES
    containers,  \* ContainerRegistry._containers: id -> Container
    regfile,     \* the registry file
    tmpfile,     \* <registry file>.tmp
    omap,        \* ContainerManager._orchestrators: id -> orchestrator (slot)
    opid,        \* orchestrator k: _container_pid is set (to process k)
    proc,        \* process k: "none" | "running" | "zombie" | "orphan" | "reaped"
    pstat,       \* process k: wait status once it has exited
    thr,         \* per thread: pc and locals
    call,        \* caller thread: the operation in progress / last finished
                 \* (alive: the process had not exited at stop's state check;
                 \*  err: which exception the call raised)
    restarts,    \* number of runtime restarts so far
    creates,     \* number of create calls so far
    ioerrs,      \* number of failed saves so far
    env,         \* create_container_process: what the orchestrator was given
    ppc,         \* create_container_process: where the parent is
    cpc,         \* the forked child: where it is
    unshared,    \* namespaces the parent has unshared
    cgroup,      \* the cgroup leaf: _cgroup_id set, directory, memory.max, cgroup.procs
    pipe,        \* the synchronization pipe
    idmaps,      \* files of /proc/<child> the parent has written
    childdid,    \* what the child has done since it was unblocked
    req,         \* create: the arguments of the last call and how it ended
    rootfs,      \* create: ids whose root filesystem directory was made
    uuids,       \* create: number of uuid4() calls so far
    rcall,       \* registry alone: the last call made on it and what it returned
    rt,          \* serialization alone: a Container, its JSON text, what reads back
    wrote,       \* per thread: its current save flushed into the registry file itself
    leaf         \* process k: the cgroup leaf pre-created for it: "none" | "made" | "removed"

mgrvars == <<containers, regfile, tmpfile, omap, opid, proc, pstat, thr, call,
             restarts, creates, ioerrs, wrote, leaf>>

procvars == <<env, ppc, cpc, unshared, cgroup, pipe, idmaps, childdid>>

createvars == <<req, rootfs, uuids>>

unitvars == <<rcall, rt>>

vars == <<mgrvars, wrote, leaf, procvars, createvars, unitvars>>

\* What only counts steps against the bounds.
counters == <<restarts, creates, ioerrs>>

\* ---------------------------------------------------------------- registry
\* _serialize_container over the whole map: the `data` dict of _save_to_file.
Serialize(cs) == [id \in DOMAIN cs |-> to_dict(cs[id])]

\* A load that finds nothing whatever the file holds.
LoadNothing(f) == EmptyMap

\* load_containers: the file parsed, or {} when it is absent or malformed.
load_containers(f) ==
    IF f.kind = "json"
    THEN [id \in DOMAIN f.data |-> from_dict(f.data[id])]
    ELSE EmptyMap

\* get_all_containers(): every container, whatever its state.
get_all_containers(cs) == {id \in DOMAIN cs : TRUE}

\* get_container(id) is not None and its state is st.
InState(cs, id, st) == id \in DOMAIN cs /\ cs[id].state = st

\* Checks that would report every rejection as "not found".
RejectErrorNotFound(cs, id) == "not_found"

\* The ValueError start, stop and remove raise when their checks fail:
\* "not found", or the one about the state the container is in.
RejectError(cs, id) == IF id \in DOMAIN cs THEN "wrong_state" ELSE "not_found"

\* The in-memory part of update_container_state with process_id=pid.
UpdateStatePid(cs, id, st, pid) ==
    DictSet(cs, id, [cs[id] EXCEPT !.state = st, !.process_id = pid])

\* An update that sets the state and drops the exit_code keyword.
UpdateStateDropCode(cs, id, st, ec) ==
    DictSet(cs, id, [cs[id] EXCEPT !.state = st])

\* The in-memory part of update_container_state with exit_code=ec.
UpdateStateExit(cs, id, st, ec) ==
    DictSet(cs, id, [cs[id] EXCEPT !.state = st, !.exit_code = ec])

\* The in-memory part of update_container_state with no keyword arguments.
UpdateState(cs, id, st) ==
    DictSet(cs, id, [cs[id] EXCEPT !.state = st])

\* ---------------------------------------------------------------- threads
IdleThread ==
    [pc |-> "idle", id |-> 0, k |-> 0, code |-> 0, hnd |-> FALSE,
     snap |-> EmptyMap, fh |-> "-"]

NoThread == [IdleThread EXCEPT !.pc = "none"]

NoCgroup == [id |-> FALSE, dir |-> FALSE, limit |-> FALSE, procs |-> FALSE]

\* No create_container_process in progress.
ProcIdle ==
    /\ env = [root |-> TRUE, cmd |-> TRUE, mem |-> TRUE, maps |-> TRUE]
    /\ ppc = "idle"
    /\ cpc = "none"
    /\ unshared = {}
    /\ cgroup = NoCgroup
    /\ pipe = "none"
    /\ idmaps = {}
    /\ childdid = {}

\* ContainerManager over an empty registry directory, nothing started yet.
MgrInit ==
    /\ containers = EmptyMap
    /\ regfile = Absent
    /\ tmpfile = Absent
    /\ omap = EmptyMap
    /\ opid = [k \in Slots |-> FALSE]
    /\ proc = [k \in Slots |-> "none"]
    /\ pstat = [k \in Slots |-> "-"]
    /\ thr = [t \in Threads |-> IF t = Caller THEN IdleThread ELSE NoThread]
    /\ call = [op |-> "none", id |-> 0, res |-> "-", alive |-> FALSE, err |-> "-"]
    /\ restarts = 0
    /\ creates = 0
    /\ ioerrs = 0
    /\ wrote = [t \in Threads |-> FALSE]
    /\ leaf = [k \in Slots |-> "none"]

\* No create call has been made.
CreateIdle ==
    /\ req = [name |-> << >>, command |-> << >>, memory_limit |-> 0,
              res |-> "-", err |-> "-", id |-> << >>]
    /\ rootfs = {}
    /\ uuids = 0

\* No call has been made on the registry by itself, nothing is serialized.
UnitIdle ==
    /\ rcall = [op |-> "none", id |-> 0, ret |-> FALSE, raised |-> FALSE]
    /\ rt = [pc |-> "none"]

Init == MgrInit /\ ProcIdle /\ CreateIdle /\ UnitIdle

\* ---------------------------------------------------------------- _save_to_file
\* The thread record of t once the registry call it is in has returned.
DoneThr(t) ==
    IF t = Caller
    THEN CASE call.op = "start" -> [IdleThread EXCEPT !.pc = "st_register", !.k = thr[t].k]
           [] call.op = "remove" -> [IdleThread EXCEPT !.pc = "rm_pop"]
           [] OTHER -> IdleThread
    ELSE [thr[t] EXCEPT !.pc = "pop", !.snap = EmptyMap, !.fh = "-"]

DoneCall(t) ==
    IF t = Caller /\ call.op \in {"create", "stop"}
    THEN [call EXCEPT !.res = "ok"]
    ELSE call

\* The thread record of t once _save_to_file has raised (line 167): start
\* catches it (manager.py line 180), the monitor catches it once (line 205),
\* every other caller lets it through.
RaiseThr(t) ==
    IF t = Caller
    THEN IF call.op = "start"
         THEN [IdleThread EXCEPT !.pc = "st_except", !.k = thr[t].k]
         ELSE IdleThread
    ELSE IF thr[t].hnd
         THEN [thr[t] EXCEPT !.pc = "pop", !.snap = EmptyMap, !.fh = "-"]
         ELSE [thr[t] EXCEPT !.pc = "update", !.hnd = TRUE, !.code = -1,
                             !.snap = EmptyMap, !.fh = "-"]

RaiseCall(t) ==
    IF t = Caller /\ call.op # "start"
    THEN [call EXCEPT !.res = "raised", !.err = "io"]
    ELSE call

\* Lines 153-159 after the in-memory change to cs: makedirs, which may
\* raise, and the `data` dict, the snapshot this save will write.
IoOutcomes == IF ioerrs < MaxIoErrors THEN {FALSE, TRUE} ELSE {FALSE}

BeginSave(t, cs, ioerr) ==
    IF ioerr
    THEN /\ thr' = [thr EXCEPT ![t] = RaiseThr(t)]
         /\ call' = RaiseCall(t)
         /\ ioerrs' = ioerrs + 1
         /\ tmpfile' = tmpfile
    ELSE /\ thr' = [thr EXCEPT ![t] = [@ EXCEPT !.pc = "sv_open", !.snap = Serialize(cs)]]
         /\ call' = call
         /\ ioerrs' = ioerrs
         /\ tmpfile' = tmpfile

\* Line 161: open(temp_file, "w") creates the temp file or truncates the one
\* there.
SaveOpen(t) ==
    /\ thr[t].pc = "sv_open"
    /\ tmpfile' = Partial
    /\ thr' = [thr EXCEPT ![t] = [@ EXCEPT !.pc = "sv_write", !.fh = "tmp"]]
    /\ UNCHANGED <<containers, regfile, omap, opid, proc, pstat, call, restarts, creates, ioerrs, wrote, leaf, procvars, createvars, unitvars>>

\* Line 162 and the end of the with block: json.dump, then close flushes the
\* document into whatever file the handle is open on by now.
SaveWrite(t) ==
    /\ thr[t].pc = "sv_write"
    /\ tmpfile' = IF thr[t].fh = "tmp" THEN Json(thr[t].snap) ELSE tmpfile
    /\ regfile' = IF thr[t].fh = "reg" THEN Json(thr[t].snap) ELSE regfile
    /\ thr' = [thr EXCEPT ![t] = [@ EXCEPT !.pc = "sv_replace", !.fh = "-", !.snap = EmptyMap]]
    /\ wrote' = [wrote EXCEPT ![t] = (thr[t].fh = "reg")]
    /\ UNCHANGED <<containers, omap, opid, proc, pstat, call, restarts, creates, ioerrs, leaf, procvars, createvars, unitvars>>

\* A handle open on the temp file follows it when it is renamed.
Renamed(h) ==
    CASE h = "tmp" -> "reg"
      [] h = "reg" -> "unlinked"
      [] OTHER -> h

\* Line 164: os.replace(temp_file, registry_file); FileNotFoundError when
\* another thread has already renamed the temp file away.
SaveReplace(t) ==
    /\ thr[t].pc = "sv_replace"
    /\ IF tmpfile.kind = "absent"
       THEN /\ thr' = [thr EXCEPT ![t] = RaiseThr(t)]
            /\ call' = RaiseCall(t)
            /\ UNCHANGED <<regfile, tmpfile>>
       ELSE /\ regfile' = tmpfile
            /\ tmpfile' = Absent
            /\ thr' = [u \in Threads |->
                         IF u = t THEN DoneThr(t)
                         ELSE [thr[u] EXCEPT !.fh = Renamed(@)]]
            /\ call' = DoneCall(t)
    /\ wrote' = [wrote EXCEPT ![t] = FALSE]
    /\ UNCHANGED <<containers, omap, opid, proc, pstat, restarts, creates, ioerrs, leaf, procvars, createvars, unitvars>>

\* ---------------------------------------------------------------- create
\* uuid.uuid4()[:8] (line 128): any of the prefixes.
uuid4_prefix == IDs

\* ContainerManager.create, lines 128-138, with save_container's line 76:
\* a call that passed the validation of lines 122-126.
Create ==
    /\ thr[Caller].pc = "idle"
    /\ creates < MaxCreates
    /\ creates' = creates + 1
    /\ \E id \in uuid4_prefix, ioerr \in IoOutcomes :
         /\ containers' = DictSet(containers, id, NewContainer)
         /\ IF ioerr
            THEN /\ thr' = thr
                 /\ call' = [op |-> "create", id |-> id, res |-> "raised", alive |-> FALSE,
                              err |-> "io"]
                 /\ ioerrs' = ioerrs + 1
                 /\ tmpfile' = tmpfile
            ELSE /\ thr' = [thr EXCEPT ![Caller] =
                               [@ EXCEPT !.pc = "sv_open", !.snap = Serialize(containers')]]
                 /\ call' = [op |-> "create", id |-> id, res |-> "running", alive |-> FALSE,
                              err |-> "-"]
                 /\ ioerrs' = ioerrs
                 /\ tmpfile' = tmpfile
    /\ UNCHANGED <<regfile, omap, opid, proc, pstat, restarts, wrote, leaf, procvars, createvars, unitvars>>

\* ---------------------------------------------------------------- orchestrator
\* An orchestrator whose cleanup leaves _container_pid as it was.
KeepResources(o, k) == o

\* cleanup_resources (lines 311-316): _reset_internal_state clears
\* _container_pid; a no-op when it is already None.
cleanup_resources(o, k) == [o EXCEPT ![k] = FALSE]

\* _cleanup_cgroup (lines 318-327) inside cleanup_resources: an orchestrator
\* that still has its _cgroup_id drains the leaf and removes it.
cleanup_cgroup(l, k) == [l EXCEPT ![k] = IF @ = "made" THEN "removed" ELSE @]

\* wait_for_exit lines 240-243: the exit code of a wait status.
ExitCodeOf(status) ==
    CASE status = "exit0" -> 0
      [] status = "exit1" -> 1
      [] OTHER -> -1

\* The lowest slot no process has been forked into yet (0: none left).
FreeSlot ==
    IF \E k \in Slots : proc[k] = "none"
    THEN CHOOSE k \in Slots : proc[k] = "none" /\ \A j \in Slots : j < k => proc[j] # "none"
    ELSE 0

\* ---------------------------------------------------------------- start
\* Lines 157-161: not found, or not in the created state.
StartRejected ==
    /\ thr[Caller].pc = "idle"
    /\ \E id \in IDs :
         /\ ~InState(containers, id, CREATED)
         /\ call' = [op |-> "start", id |-> id, res |-> "raised", alive |-> FALSE,
                      err |-> RejectError(containers, id)]
    /\ UNCHANGED <<containers, regfile, tmpfile, omap, opid, proc, pstat, thr, restarts, creates, ioerrs, wrote, leaf, procvars, createvars, unitvars>>

\* Lines 163-176 when create_container_process raises before it forks: line
\* 182 cleans up an orchestrator that holds no PID, line 183 raises.
StartForkFails ==
    /\ thr[Caller].pc = "idle"
    /\ \E id \in IDs :
         /\ InState(containers, id, CREATED)
         /\ call' = [op |-> "start", id |-> id, res |-> "raised", alive |-> FALSE,
                      err |-> "start_failed"]
    /\ UNCHANGED <<containers, regfile, tmpfile, omap, opid, proc, pstat, thr, restarts, creates, ioerrs, wrote, leaf, procvars, createvars, unitvars>>

\* Lines 163-176: a new orchestrator, and create_container_process
\* pre-creates the cgroup leaf (or fails to, which is only logged), forks the
\* container process and sets _container_pid.
StartFork ==
    /\ thr[Caller].pc = "idle"
    /\ FreeSlot # 0
    /\ \E id \in IDs :
         /\ InState(containers, id, CREATED)
         /\ call' = [op |-> "start", id |-> id, res |-> "running", alive |-> FALSE,
                      err |-> "-"]
    /\ proc' = [proc EXCEPT ![FreeSlot] = "running"]
    /\ opid' = [opid EXCEPT ![FreeSlot] = TRUE]
    /\ thr' = [thr EXCEPT ![Caller] = [@ EXCEPT !.pc = "st_update", !.k = FreeSlot]]
    /\ \E made \in BOOLEAN :
         leaf' = [leaf EXCEPT ![FreeSlot] = IF made THEN "made" ELSE "none"]
    /\ UNCHANGED <<containers, regfile, tmpfile, omap, pstat, restarts, creates, ioerrs, wrote, procvars, createvars, unitvars>>

\* Lines 177-178: update_container_state(id, RUNNING, process_id=pid).
StartUpdate ==
    /\ thr[Caller].pc = "st_update"
    /\ IF call.id \in DOMAIN containers
       THEN /\ containers' = UpdateStatePid(containers, call.id, RUNNING, thr[Caller].k)
            /\ \E ioerr \in IoOutcomes : BeginSave(Caller, containers', ioerr)
       ELSE /\ containers' = containers
            /\ thr' = [thr EXCEPT ![Caller] = DoneThr(Caller)]
            /\ call' = call
            /\ UNCHANGED <<ioerrs, tmpfile>>
    /\ UNCHANGED <<regfile, omap, opid, proc, pstat, restarts, creates, wrote, leaf, procvars, createvars, unitvars>>

\* Lines 180-183: the registry update raised; cleanup_resources, RuntimeError.
StartExcept ==
    /\ thr[Caller].pc = "st_except"
    /\ opid' = cleanup_resources(opid, thr[Caller].k)
    /\ thr' = [thr EXCEPT ![Caller] = IdleThread]
    /\ call' = [call EXCEPT !.res = "raised", !.err = "start_failed"]
    /\ leaf' = cleanup_cgroup(leaf, thr[Caller].k)
    /\ UNCHANGED <<containers, regfile, tmpfile, omap, proc, pstat, restarts, creates, ioerrs, wrote, procvars, createvars, unitvars>>

\* Lines 179 and 185-193: register the orchestrator, start the monitor
\* thread (or log that it could not be started).
StartRegister ==
    /\ thr[Caller].pc = "st_register"
    /\ omap' = DictSet(omap, call.id, thr[Caller].k)
    /\ \E spawned \in BOOLEAN :
         thr' = [thr EXCEPT ![Caller] = IdleThread,
                            ![thr[Caller].k] =
                                IF spawned
                                THEN [IdleThread EXCEPT !.pc = "get", !.id = call.id]
                                ELSE @]
    /\ call' = [call EXCEPT !.res = "ok"]
    /\ UNCHANGED <<containers, regfile, tmpfile, opid, proc, pstat, restarts, creates, ioerrs, wrote, leaf, procvars, createvars, unitvars>>

\* ---------------------------------------------------------------- stop
\* The process of the orchestrator registered under id has not exited.
ProcessAlive(id) ==
    IF id \in DOMAIN omap THEN proc[omap[id]] = "running" ELSE FALSE

\* Lines 237-241: not found, or not in the running state.
StopRejected ==
    /\ thr[Caller].pc = "idle"
    /\ \E id \in IDs :
         /\ ~InState(containers, id, RUNNING)
         /\ call' = [op |-> "stop", id |-> id, res |-> "raised", alive |-> FALSE,
                      err |-> RejectError(containers, id)]
    /\ UNCHANGED <<containers, regfile, tmpfile, omap, opid, proc, pstat, thr, restarts, creates, ioerrs, wrote, leaf, procvars, createvars, unitvars>>

\* Lines 237-241: the state check passes.
StopCheck ==
    /\ thr[Caller].pc = "idle"
    /\ \E id \in IDs :
         /\ InState(containers, id, RUNNING)
         /\ call' = [op |-> "stop", id |-> id, res |-> "running",
                      alive |-> ProcessAlive(id), err |-> "-"]
    /\ thr' = [thr EXCEPT ![Caller] = [@ EXCEPT !.pc = "sp_getorch"]]
    /\ UNCHANGED <<containers, regfile, tmpfile, omap, opid, proc, pstat, restarts, creates, ioerrs, wrote, leaf, procvars, createvars, unitvars>>

\* Lines 243-245: self._orchestrators.get(id), ValueError when there is none.
StopGetOrch ==
    /\ thr[Caller].pc = "sp_getorch"
    /\ IF call.id \in DOMAIN omap
       THEN /\ thr' = [thr EXCEPT ![Caller] = [@ EXCEPT !.pc = "sp_kill", !.k = omap[call.id]]]
            /\ call' = call
       ELSE /\ thr' = [thr EXCEPT ![Caller] = IdleThread]
            /\ call' = [call EXCEPT !.res = "raised", !.err = "no_orchestrator"]
    /\ UNCHANGED <<containers, regfile, tmpfile, omap, opid, proc, pstat, restarts, creates, ioerrs, wrote, leaf, procvars, createvars, unitvars>>

\* terminate lines 260-266: ValueError (not caught by stop) when
\* _container_pid is None; else os.kill(pid, SIGTERM), which raises
\* ProcessLookupError for a process already reaped, and which a running
\* process either dies of or survives.
StopKill ==
    /\ thr[Caller].pc = "sp_kill"
    /\ LET k == thr[Caller].k IN
       IF ~opid[k]
       THEN /\ thr' = [thr EXCEPT ![Caller] = IdleThread]
            /\ call' = [call EXCEPT !.res = "raised", !.err = "no_pid"]
            /\ UNCHANGED <<proc, pstat>>
       ELSE /\ call' = call
            /\ IF proc[k] = "reaped"
               THEN /\ thr' = [thr EXCEPT ![Caller] = [@ EXCEPT !.pc = "sp_cleanup"]]
                    /\ UNCHANGED <<proc, pstat>>
               ELSE /\ thr' = [thr EXCEPT ![Caller] = [@ EXCEPT !.pc = "sp_waitpid"]]
                    /\ \E dies \in BOOLEAN :
                         IF dies /\ proc[k] = "running"
                         THEN /\ proc' = [proc EXCEPT ![k] = "zombie"]
                              /\ pstat' = [pstat EXCEPT ![k] = "sigterm"]
                         ELSE UNCHANGED <<proc, pstat>>
    /\ UNCHANGED <<containers, regfile, tmpfile, omap, opid, restarts, creates, ioerrs, wrote, leaf, procvars, createvars, unitvars>>

\* terminate lines 268-301: waitpid(pid, WNOHANG).  A zombie is reaped; a
\* process still running gives status 0, which WIFEXITED accepts, so the
\* sleep and SIGKILL branch is skipped; ChildProcessError (already reaped)
\* and the TypeError of a PID reset to None meanwhile are caught.
StopWaitpid ==
    /\ thr[Caller].pc = "sp_waitpid"
    /\ LET k == thr[Caller].k IN
       IF opid[k] /\ proc[k] = "zombie"
       THEN /\ proc' = [proc EXCEPT ![k] = "reaped"]
            /\ pstat' = [pstat EXCEPT ![k] = "-"]
       ELSE UNCHANGED <<proc, pstat>>
    /\ thr' = [thr EXCEPT ![Caller] = [@ EXCEPT !.pc = "sp_cleanup"]]
    /\ UNCHANGED <<containers, regfile, tmpfile, omap, opid, call, restarts, creates, ioerrs, wrote, leaf, procvars, createvars, unitvars>>

\* terminate line 303: cleanup_resources.
StopCleanup ==
    /\ thr[Caller].pc = "sp_cleanup"
    /\ opid' = cleanup_resources(opid, thr[Caller].k)
    /\ thr' = [thr EXCEPT ![Caller] = [@ EXCEPT !.pc = "sp_update"]]
    /\ leaf' = cleanup_cgroup(leaf, thr[Caller].k)
    /\ UNCHANGED <<containers, regfile, tmpfile, omap, proc, pstat, call, restarts, creates, ioerrs, wrote, procvars, createvars, unitvars>>

\* Line 248: update_container_state(id, EXITED); line 249 returns True.
StopUpdate ==
    /\ thr[Caller].pc = "sp_update"
    /\ IF call.id \in DOMAIN containers
       THEN /\ containers' = UpdateState(containers, call.id, EXITED)
            /\ \E ioerr \in IoOutcomes : BeginSave(Caller, containers', ioerr)
       ELSE /\ containers' = containers
            /\ thr' = [thr EXCEPT ![Caller] = DoneThr(Caller)]
            /\ call' = DoneCall(Caller)
            /\ UNCHANGED <<ioerrs, tmpfile>>
    /\ UNCHANGED <<regfile, omap, opid, proc, pstat, restarts, creates, wrote, leaf, procvars, createvars, unitvars>>

\* ---------------------------------------------------------------- remove
\* Lines 264-274: not found, or still running.
RemoveRejected ==
    /\ thr[Caller].pc = "idle"
    /\ \E id \in IDs :
         /\ id \notin DOMAIN containers \/ InState(containers, id, RUNNING)
         /\ call' = [op |-> "remove", id |-> id, res |-> "raised", alive |-> FALSE,
                      err |-> RejectError(containers, id)]
    /\ UNCHANGED <<containers, regfile, tmpfile, omap, opid, proc, pstat, thr, restarts, creates, ioerrs, wrote, leaf, procvars, createvars, unitvars>>

\* Lines 264-275: the checks pass and remove_container deletes the entry
\* (registry.py line 138) and saves.
Remove ==
    /\ thr[Caller].pc = "idle"
    /\ \E id \in IDs :
         /\ id \in DOMAIN containers /\ ~InState(containers, id, RUNNING)
         /\ containers' = DictDel(containers, id)
         /\ \E ioerr \in IoOutcomes :
              IF ioerr
              THEN /\ thr' = thr
                   /\ call' = [op |-> "remove", id |-> id, res |-> "raised", alive |-> FALSE,
                                err |-> "io"]
                   /\ ioerrs' = ioerrs + 1
                   /\ tmpfile' = tmpfile
              ELSE /\ thr' = [thr EXCEPT ![Caller] =
                                 [@ EXCEPT !.pc = "sv_open", !.snap = Serialize(containers')]]
                   /\ call' = [op |-> "remove", id |-> id, res |-> "running", alive |-> FALSE,
                                err |-> "-"]
                   /\ ioerrs' = ioerrs
                   /\ tmpfile' = tmpfile
    /\ UNCHANGED <<regfile, omap, opid, proc, pstat, restarts, creates, wrote, leaf, procvars, createvars, unitvars>>

\* Lines 276-278: pop the orchestrator, if any, and clean it up.
RemovePop ==
    /\ thr[Caller].pc = "rm_pop"
    /\ omap' = DictDel(omap, call.id)
    /\ opid' = IF call.id \in DOMAIN omap
               THEN cleanup_resources(opid, omap[call.id])
               ELSE opid
    /\ thr' = [thr EXCEPT ![Caller] = IdleThread]
    /\ call' = [call EXCEPT !.res = "ok"]
    /\ leaf' = IF call.id \in DOMAIN omap
               THEN cleanup_cgroup(leaf, omap[call.id])
               ELSE leaf
    /\ UNCHANGED <<containers, regfile, tmpfile, proc, pstat, restarts, creates, ioerrs, wrote, procvars, createvars, unitvars>>

\* ---------------------------------------------------------------- monitor
Monitors == Slots

\* Lines 196-198: self._orchestrators.get(container_id); return when None.
MonGet(m) ==
    /\ thr[m].pc = "get"
    /\ thr' = [thr EXCEPT ![m] =
                 IF thr[m].id \in DOMAIN omap
                 THEN [@ EXCEPT !.pc = "wait", !.k = omap[thr[m].id]]
                 ELSE [IdleThread EXCEPT !.pc = "done", !.id = thr[m].id]]
    /\ UNCHANGED <<containers, regfile, tmpfile, omap, opid, proc, pstat, call, restarts, creates, ioerrs, wrote, leaf, procvars, createvars, unitvars>>

\* wait_for_exit lines 233-238: ValueError when _container_pid is None (the
\* monitor's except clause then records -1), else block in waitpid(pid, 0).
MonWaitBegin(m) ==
    /\ thr[m].pc = "wait"
    /\ thr' = [thr EXCEPT ![m] =
                 IF opid[thr[m].k]
                 THEN [@ EXCEPT !.pc = "blocked"]
                 ELSE [@ EXCEPT !.pc = "update", !.hnd = TRUE, !.code = -1]]
    /\ UNCHANGED <<containers, regfile, tmpfile, omap, opid, proc, pstat, call, restarts, creates, ioerrs, wrote, leaf, procvars, createvars, unitvars>>

\* wait_for_exit lines 238-245: waitpid returns once the process is a zombie
\* and reaps it; it raises ChildProcessError when the process has been
\* reaped by someone else.
MonWaitpid(m) ==
    /\ thr[m].pc = "blocked"
    /\ LET k == thr[m].k IN
       \/ /\ proc[k] = "zombie"
          /\ proc' = [proc EXCEPT ![k] = "reaped"]
          /\ pstat' = [pstat EXCEPT ![k] = "-"]
          /\ thr' = [thr EXCEPT ![m] = [@ EXCEPT !.pc = "cleanup", !.code = ExitCodeOf(pstat[k])]]
       \/ /\ proc[k] = "reaped"
          /\ UNCHANGED <<proc, pstat>>
          /\ thr' = [thr EXCEPT ![m] = [@ EXCEPT !.pc = "update", !.hnd = TRUE, !.code = -1]]
    /\ UNCHANGED <<containers, regfile, tmpfile, omap, opid, call, restarts, creates, ioerrs, wrote, leaf, procvars, createvars, unitvars>>

\* wait_for_exit line 250: cleanup_resources.
MonCleanup(m) ==
    /\ thr[m].pc = "cleanup"
    /\ opid' = cleanup_resources(opid, thr[m].k)
    /\ thr' = [thr EXCEPT ![m] = [@ EXCEPT !.pc = "update"]]
    /\ leaf' = cleanup_cgroup(leaf, thr[m].k)
    /\ UNCHANGED <<containers, regfile, tmpfile, omap, proc, pstat, call, restarts, creates, ioerrs, wrote, procvars, createvars, unitvars>>

\* A monitor that would leave the state as start recorded it.
MonitorStateRunning == RUNNING

\* The state the monitor records (lines 203, 209, 214).
MonitorState == EXITED

\* Lines 202-215: update_container_state(id, EXITED, exit_code=...).
MonUpdate(m) ==
    /\ thr[m].pc = "update"
    /\ IF thr[m].id \in DOMAIN containers
       THEN /\ containers' = UpdateStateExit(containers, thr[m].id, MonitorState, thr[m].code)
            /\ \E ioerr \in IoOutcomes : BeginSave(m, containers', ioerr)
       ELSE /\ containers' = containers
            /\ thr' = [thr EXCEPT ![m] = DoneThr(m)]
            /\ call' = call
            /\ UNCHANGED <<ioerrs, tmpfile>>
    /\ UNCHANGED <<regfile, omap, opid, proc, pstat, restarts, creates, wrote, leaf, procvars, createvars, unitvars>>

\* A monitor whose finally clause would leave the map alone.
KeepOrchestrator(om, id) == om

\* Line 217: self._orchestrators.pop(container_id, None).
PopOrchestrator(om, id) == DictDel(om, id)

MonPop(m) ==
    /\ thr[m].pc = "pop"
    /\ omap' = PopOrchestrator(omap, thr[m].id)
    /\ thr' = [thr EXCEPT ![m] = [IdleThread EXCEPT !.pc = "done", !.id = thr[m].id]]
    /\ UNCHANGED <<containers, regfile, tmpfile, opid, proc, pstat, call, restarts, creates, ioerrs, wrote, leaf, procvars, createvars, unitvars>>

\* ---------------------------------------------------------------- environment
\* The wait statuses of a process that exits by itself.
NaturalStatuses == {"exit1"}

\* The container process exits by itself.  A child becomes a zombie until it
\* is waited for; a process the runtime is not the parent of is reaped by
\* init.
ProcExit ==
    \E k \in Slots :
        /\ proc[k] \in {"running", "orphan"}
        /\ proc' = [proc EXCEPT ![k] = IF proc[k] = "running" THEN "zombie" ELSE "reaped"]
        /\ \E st \in NaturalStatuses :
             pstat' = [pstat EXCEPT ![k] = IF proc[k] = "running" THEN st ELSE "-"]
        /\ UNCHANGED <<containers, regfile, tmpfile, omap, opid, thr, call, restarts, creates, ioerrs, wrote, leaf, procvars, createvars, unitvars>>

\* ---------------------------------------------------------------- list
\* The absent filter of list().
None == "None"
Filters == State \cup {None}

\* What registry.get_all_containers takes besides self (registry.py line 91):
\* nothing.
get_all_containers_params == << >>

\* manager.list(state), line 294: registry.get_all_containers(state), one
\* positional argument whether or not the caller gave a filter.  Binding it
\* to a method with no such parameter raises TypeError; the method itself
\* returns every container.
list(cs, state) ==
    IF Len(<<state>>) # Len(get_all_containers_params)
    THEN [raised |-> TRUE, value |-> {}]
    ELSE [raised |-> FALSE, value |-> get_all_containers(cs)]

\* The caller runs list(state).
List ==
    /\ thr[Caller].pc = "idle"
    /\ \E state \in Filters :
         call' = [op |-> "list", id |-> 0,
                  res |-> IF list(containers, state).raised THEN "raised" ELSE "ok",
                  alive |-> FALSE,
                  err |-> IF list(containers, state).raised THEN "type_error" ELSE "-"]
    /\ UNCHANGED <<containers, regfile, tmpfile, omap, opid, proc, pstat, thr, restarts, creates, ioerrs, wrote, leaf, procvars, createvars, unitvars>>

\* _is_process_running (lines 92-97): os.kill(pid, 0) succeeds.
is_process_running(pid) == pid \in Slots /\ proc[pid] \in {"running", "zombie", "orphan"}

\* The runtime process dies at an arbitrary point (its threads with it, the
\* container processes are orphaned) and a new one runs ContainerManager():
\* line 60 loads the registry file, line 61 starts with no orchestrators,
\* line 62 runs _recover_running_containers, whose first statement (line
\* 65) calls get_all_containers(State.RUNNING); the method takes no state
\* argument (registry.py line 91), so it raises TypeError before any
\* container is looked at.  The operations are then modelled on the fields
\* as lines 60-61 left them.
Restart ==
    /\ restarts < MaxRestarts
    /\ restarts' = restarts + 1
    /\ containers' = load_containers(regfile)
    /\ omap' = EmptyMap
    /\ opid' = [k \in Slots |-> FALSE]
    /\ proc' = [k \in Slots |->
                  CASE proc[k] = "running" -> "orphan"
                    [] proc[k] = "zombie" -> "reaped"
                    [] OTHER -> proc[k]]
    /\ pstat' = [k \in Slots |-> "-"]
    /\ thr' = [t \in Threads |-> IF t = Caller THEN IdleThread ELSE NoThread]
    /\ call' = [op |-> "construct", id |-> 0, res |-> "raised", alive |-> FALSE,
                err |-> "type_error"]
    /\ wrote' = [t \in Threads |-> FALSE]
    /\ UNCHANGED <<regfile, tmpfile, creates, ioerrs, leaf, procvars, createvars, unitvars>>

Next ==
    \/ Create
    \/ StartRejected \/ StartForkFails \/ StartFork \/ StartUpdate
    \/ StartExcept \/ StartRegister
    \/ StopRejected \/ StopCheck \/ StopGetOrch \/ StopKill \/ StopWaitpid
    \/ StopCleanup \/ StopUpdate
    \/ RemoveRejected \/ Remove \/ RemovePop
    \/ List
    \/ \E t \in Threads : SaveOpen(t) \/ SaveWrite(t) \/ SaveReplace(t)
    \/ \E m \in Monitors :
         \/ MonGet(m) \/ MonWaitBegin(m) \/ MonWaitpid(m) \/ MonCleanup(m)
         \/ MonUpdate(m) \/ MonPop(m)
    \/ ProcExit
    \/ Restart

Spec == Init /\ [][Next]_vars

\* ================================================================ process creation
\* NamespaceOrchestrator.create_container_process and the child it forks,
\* one statement at a time.  env is the host and the configuration:
\*   root: os.getuid() == 0,  cmd: _command is set,
\*   mem: _memory_limit is set,  maps: uid and gid mappings are configured.
Envs == [root : BOOLEAN, cmd : BOOLEAN, mem : BOOLEAN, maps : BOOLEAN]

\* The three files apply_user_isolation writes, in its order.
MapFiles == <<"setgroups", "uid_map", "gid_map">>

AllMaps == {MapFiles[i] : i \in 1..Len(MapFiles)}

InitProc ==
    /\ MgrInit
    /\ CreateIdle
    /\ UnitIdle
    /\ env \in Envs
    /\ ppc = "check"
    /\ cpc = "none"
    /\ unshared = {}
    /\ cgroup = NoCgroup
    /\ pipe = "none"
    /\ idmaps = {}
    /\ childdid = {}

\* A create_container_process without the check of lines 182-183.
PSkipCheck ==
    /\ ppc = "check"
    /\ ppc' = "ns_user"
    /\ UNCHANGED <<env, cpc, unshared, cgroup, pipe, idmaps, childdid, mgrvars, createvars, unitvars>>

\* Lines 182-183: ValueError when no command is configured (outside the try).
PCheckCommand ==
    /\ ppc = "check"
    /\ ppc' = IF env.cmd THEN "ns_user" ELSE "raised"
    /\ UNCHANGED <<env, cpc, unshared, cgroup, pipe, idmaps, childdid, mgrvars, createvars, unitvars>>

\* One unshare of setup_namespaces (lines 153-162); OSError becomes the
\* RuntimeError of line 164, which line 218 wraps again.
Unshare(at, ns, then) ==
    /\ ppc = at
    /\ \E ok \in BOOLEAN :
         /\ ppc' = IF ok THEN then ELSE "raised"
         /\ unshared' = IF ok THEN unshared \cup {ns} ELSE unshared
    /\ UNCHANGED <<env, cpc, cgroup, pipe, idmaps, childdid, mgrvars, createvars, unitvars>>

\* Lines 153-157: the user namespace is unshared only when not root.
PSetupUser ==
    IF env.root
    THEN /\ ppc = "ns_user"
         /\ ppc' = "ns_mount"
         /\ UNCHANGED <<env, cpc, unshared, cgroup, pipe, idmaps, childdid, mgrvars, createvars, unitvars>>
    ELSE Unshare("ns_user", "user", "ns_mount")

PSetupMount == Unshare("ns_mount", "mount", "ns_uts")

PSetupUts == Unshare("ns_uts", "uts", "ns_pid")

PSetupPid == Unshare("ns_pid", "pid", "precgroup")

\* A _pre_setup_cgroups whose failures are raised instead of logged.
PPreCgroupFatal ==
    /\ ppc = "precgroup"
    /\ IF env.mem
       THEN \E made \in BOOLEAN, written \in BOOLEAN :
              /\ cgroup' = [id |-> TRUE, dir |-> made, limit |-> made /\ written,
                            procs |-> FALSE]
              /\ ppc' = IF made /\ written THEN "pipe" ELSE "raised"
       ELSE /\ cgroup' = cgroup
            /\ ppc' = "pipe"
    /\ UNCHANGED <<env, cpc, unshared, pipe, idmaps, childdid, mgrvars, createvars, unitvars>>

\* _pre_setup_cgroups (lines 376-416): nothing without a memory limit;
\* otherwise _cgroup_id is set, then makedirs and the write of memory.max,
\* whose failure is only logged.
PPreCgroup ==
    /\ ppc = "precgroup"
    /\ ppc' = "pipe"
    /\ IF env.mem
       THEN \E made \in BOOLEAN, written \in BOOLEAN :
              cgroup' = [id |-> TRUE, dir |-> made, limit |-> made /\ written,
                         procs |-> FALSE]
       ELSE cgroup' = cgroup
    /\ UNCHANGED <<env, cpc, unshared, pipe, idmaps, childdid, mgrvars, createvars, unitvars>>

\* Line 192: os.pipe().
PPipe ==
    /\ ppc = "pipe"
    /\ ppc' = "fork"
    /\ pipe' = "open"
    /\ UNCHANGED <<env, cpc, unshared, cgroup, idmaps, childdid, mgrvars, createvars, unitvars>>

\* fork_in_new_namespace_sync, the parent side (pid_namespace.py lines
\* 86, 99-103): the child exists and blocks in os.read; or fork raises.
PFork ==
    /\ ppc = "fork"
    /\ \E ok \in BOOLEAN :
         /\ ppc' = IF ok THEN "maps" ELSE "raised"
         /\ cpc' = IF ok THEN "blocked" ELSE cpc
    /\ UNCHANGED <<env, unshared, cgroup, pipe, idmaps, childdid, mgrvars, createvars, unitvars>>

\* Lines 201-208: the mappings are applied only when not root and both
\* lists are non-empty.
PMaps ==
    /\ ppc = "maps"
    /\ ppc' = IF ~env.root /\ env.maps THEN "map1" ELSE "signal"
    /\ UNCHANGED <<env, cpc, unshared, cgroup, pipe, idmaps, childdid, mgrvars, createvars, unitvars>>

\* apply_user_isolation (user_namespace.py lines 98-105): the i-th write;
\* when it raises, line 102 catches, line 103 logs, and the method returns
\* normally with the remaining files unwritten.
PMapStep(i) ==
    /\ ppc = "map" \o ToString(i)
    /\ \E ok \in BOOLEAN :
         /\ idmaps' = IF ok THEN idmaps \cup {MapFiles[i]} ELSE idmaps
         /\ ppc' = IF ok /\ i < Len(MapFiles) THEN "map" \o ToString(i + 1) ELSE "signal"
    /\ UNCHANGED <<env, cpc, unshared, cgroup, pipe, childdid, mgrvars, createvars, unitvars>>

\* Lines 211-212: os.write(write_fd, b"go"); os.close(write_fd).
PSignal ==
    /\ ppc = "signal"
    /\ ppc' = "attach"
    /\ pipe' = "go"
    /\ UNCHANGED <<env, cpc, unshared, cgroup, idmaps, childdid, mgrvars, createvars, unitvars>>

\* _apply_process_to_cgroup (lines 418-438), called on line 215 after the
\* signal: the PID is written to cgroup.procs when a cgroup was pre-created;
\* a failure is only logged.  Then line 222 returns the PID.
PAttach ==
    /\ ppc = "attach"
    /\ ppc' = "returned"
    /\ IF cgroup.id /\ env.mem
       THEN \E ok \in BOOLEAN :
              cgroup' = [cgroup EXCEPT !.procs = ok /\ cgroup.dir]
       ELSE cgroup' = cgroup
    /\ UNCHANGED <<env, cpc, unshared, pipe, idmaps, childdid, mgrvars, createvars, unitvars>>

\* The runtime process is killed between the fork and the signal: the last
\* write end of the pipe closes with nothing written.
PDie ==
    /\ ppc \in {"maps", "map1", "map2", "map3", "signal"}
    /\ ppc' = "dead"
    /\ pipe' = "eof"
    /\ UNCHANGED <<env, cpc, unshared, cgroup, idmaps, childdid, mgrvars, createvars, unitvars>>

\* The child, pid_namespace.py lines 90-92: os.read(read_fd, 2) returns
\* b"go", or b"" at end of file; the result is not looked at.
CUnblock ==
    /\ cpc = "blocked"
    /\ pipe \in {"go", "eof"}
    /\ cpc' = "mount"
    /\ UNCHANGED <<env, ppc, unshared, cgroup, pipe, idmaps, childdid, mgrvars, createvars, unitvars>>

\* One in-child step of _container_entry_point (lines 498-513): it is done,
\* or it raises and line 513 makes the child return 1.
ChildStep(at, what, then) ==
    /\ cpc = at
    /\ \E ok \in BOOLEAN :
         /\ cpc' = IF ok THEN then ELSE "exited"
         /\ childdid' = IF ok THEN childdid \cup {what} ELSE childdid
    /\ UNCHANGED <<env, ppc, unshared, cgroup, pipe, idmaps, mgrvars, createvars, unitvars>>

\* _apply_isolation lines 366-368: apply_mount_isolation (chroot, /proc).
CMount == ChildStep("mount", "mount", "uts")

\* _apply_isolation lines 370-372: apply_uts_isolation (sethostname).
CUts == ChildStep("uts", "uts", "drop")

\* os.getuid() in the child: 0 as root, and 0 in a user namespace whose
\* uid_map maps 0; the overflow uid while the namespace has no uid_map.
ChildUidIsZero == env.root \/ "uid_map" \in idmaps

\* Lines 502-503: drop_privileges when getuid() != 0 and a user id is
\* configured; setregid/setreuid to an id the namespace does not map raise.
CDrop ==
    /\ cpc = "drop"
    /\ IF ~ChildUidIsZero /\ env.maps
       THEN IF {"uid_map", "gid_map"} \subseteq idmaps
            THEN /\ cpc' = "exec"
                 /\ childdid' = childdid \cup {"drop"}
            ELSE /\ cpc' = "exited"
                 /\ childdid' = childdid
       ELSE /\ cpc' = "exec"
            /\ childdid' = childdid
    /\ UNCHANGED <<env, ppc, unshared, cgroup, pipe, idmaps, mgrvars, createvars, unitvars>>

\* Line 507: os.execvp.
CExec == ChildStep("exec", "exec", "running")

NextProc ==
    \/ PCheckCommand
    \/ PSetupUser \/ PSetupMount \/ PSetupUts \/ PSetupPid
    \/ PPreCgroup \/ PPipe \/ PFork \/ PMaps
    \/ \E i \in 1..Len(MapFiles) : PMapStep(i)
    \/ PSignal \/ PAttach \/ PDie
    \/ CUnblock \/ CMount \/ CUts \/ CDrop \/ CExec

SpecProc == InitProc /\ [][NextProc]_vars

\* ================================================================ properties
\* A step of a live Manager: the runtime is not restarted in it.
LiveStep == restarts' = restarts

\* No makedirs or open of a registry save has failed, this step included.
NoIoFailure == ioerrs' = 0

\* The containers the registry file records as Running.
PersistedRunning ==
    {id \in DOMAIN load_containers(regfile) :
        load_containers(regfile)[id].state = RUNNING}

\* C1: once the registry records Exited for an id, no step of the Manager or
\* of a monitor makes the recorded state Running or Created while the entry
\* exists; the entry stays Exited until it is removed.  (Stated for runs in
\* which every save succeeds.)
C1_ExitedIsTerminal ==
    [][(LiveStep /\ NoIoFailure) =>
         \A id \in IDs :
             (InState(containers, id, EXITED) /\ id \in DOMAIN containers')
                 => InState(containers', id, EXITED)]_vars

\* C2: constructing a Manager leaves every container persisted as Running in
\* state Running if signal 0 reaches its recorded PID and in state Exited
\* otherwise, and leaves every other container as persisted.
C2_RecoveryCorrect ==
    [][~LiveStep =>
         \A id \in DOMAIN load_containers(regfile) :
             LET c == load_containers(regfile)[id] IN
             /\ id \in DOMAIN containers'
             /\ containers'[id].state =
                    IF c.state = RUNNING
                    THEN IF is_process_running(c.process_id)' THEN RUNNING ELSE EXITED
                    ELSE c.state]_vars

\* C3: constructing a Manager registers an orchestrator and attaches a
\* monitor for every container persisted as Running whose recorded PID is
\* alive.
C3_RecoveredIsMonitored ==
    [][~LiveStep =>
         \A id \in PersistedRunning :
             is_process_running(load_containers(regfile)[id].process_id)'
                 => /\ id \in DOMAIN omap'
                    /\ \E m \in Monitors : thr'[m].pc # "none" /\ thr'[m].id = id]_vars

\* stop(id) has returned True and nothing has been called since.
StopReturned(id) ==
    /\ thr[Caller].pc = "idle"
    /\ call.op = "stop" /\ call.id = id /\ call.res = "ok"

\* A monitor of id was started, and every monitor of id has completed.
MonitorsCompleted(id) ==
    /\ \E m \in Monitors : thr[m].id = id /\ thr[m].pc = "done"
    /\ \A m \in Monitors : (thr[m].pc # "none" /\ thr[m].id = id) => thr[m].pc = "done"

\* C4: when stop(id) on a Running container has returned and the monitor of
\* id has completed, in whichever order they wrote, the registry records
\* Exited for id.
C4_StopMonitorRaceEndsExited ==
    \A id \in IDs :
        (StopReturned(id) /\ MonitorsCompleted(id)) => InState(containers, id, EXITED)

\* stop and the monitor both wrote: the monitor reaped the process (its exit
\* code is recorded), stop returned True afterwards.
C4_Witness ==
    \E id \in IDs :
        /\ StopReturned(id) /\ MonitorsCompleted(id)
        /\ InState(containers, id, EXITED)
        /\ containers[id].exit_code # 0

\* C5: a stop(id) that passed its state check while the container process
\* was still alive does not raise before it has terminated the process,
\* whatever the process and the monitor do meanwhile.  (Stated for runs in
\* which every save succeeds.)
C5_StopSurvivesNaturalExit ==
    [][(/\ LiveStep /\ NoIoFailure
        /\ call.op = "stop" /\ call.alive
        /\ thr[Caller].pc \in {"sp_getorch", "sp_kill"})
          => call'.res # "raised"]_vars

\* C6: once the monitor of a container process has completed, the
\* orchestrator map holds no entry for that process's orchestrator.
C6_NoPidLeak ==
    \A m \in Monitors :
        thr[m].pc = "done" => \A id \in DOMAIN omap : omap[id] # m

\* The process exited, its monitor reaped it and completed, and the map has
\* no entry for the id.
C6_Witness ==
    \E m \in Monitors :
        /\ thr[m].pc = "done"
        /\ proc[m] = "reaped"
        /\ thr[m].id \notin DOMAIN omap
        /\ InState(containers, thr[m].id, EXITED)

\* C7: the registry file never holds a partial document, so a crash at any
\* point reloads a complete map.
C7_NoPartialRegistryFile == regfile.kind # "partial"

\* The threads inside a registry mutation (the in-memory update is done, the
\* save is not).
Saving == {t \in Threads : thr[t].pc \in {"sv_open", "sv_write", "sv_replace"}}

\* C8: registry mutations are mutually exclusive: at most one thread is
\* between its in-memory update and the end of its save.
C8_WritesSerialized == Cardinality(Saving) <= 1

\* C9: when every create so far has succeeded, a create never returns an
\* id that is already in the registry.
C9_UniqueIds ==
    [][(creates' = creates + 1 /\ NoIoFailure)
          => call'.id \notin DOMAIN containers]_vars

\* C10: with user-namespace mappings active (not root, mappings
\* configured) and the runtime alive, the child is past the synchronization
\* pipe only when the parent has written setgroups, uid_map and gid_map.
C10_ChildWaitsForMaps ==
    (/\ ~env.root /\ env.maps
     /\ ppc # "dead"
     /\ cpc \notin {"none", "blocked"})
        => idmaps = AllMaps

\* C11: whenever the container PID is in a cgroup's cgroup.procs, that
\* cgroup directory exists and its memory.max holds the configured limit.
C11_LimitBeforeAttach == cgroup.procs => (cgroup.dir /\ cgroup.limit)

\* The caller thread enters operation op in this step.
Enters(op) ==
    /\ LiveStep
    /\ thr[Caller].pc = "idle"
    /\ call' # call
    /\ call'.op = op

\* What remove, stop and start leave alone when they reject a call: the
\* registry map and file, the orchestrators, the processes, the threads.
RejectFrame ==
    UNCHANGED <<containers, regfile, tmpfile, omap, opid, proc, pstat, thr>>

\* C12: start(id) raises not-found when id is not in the registry and
\* wrong-state when the container is Running or Exited; such a call creates
\* and registers no orchestrator, forks no process, spawns no monitor and
\* leaves the registry map and file unchanged.
C12_StartRejects ==
    [][(Enters("start") /\ ~InState(containers, call'.id, CREATED))
          => /\ call'.res = "raised"
             /\ call'.err = IF call'.id \in DOMAIN containers
                            THEN "wrong_state" ELSE "not_found"
             /\ RejectFrame]_vars

\* start was rejected for a container that is Exited.
C12_Witness ==
    /\ thr[Caller].pc = "idle"
    /\ call.op = "start" /\ call.res = "raised" /\ call.err = "wrong_state"
    /\ InState(containers, call.id, EXITED)

\* The caller returns from a successful start(id) in this step.
StartSucceeds ==
    /\ LiveStep
    /\ thr[Caller].pc = "st_register"
    /\ call'.res = "ok"

\* C13: when start(id) succeeds, the registry holds id as Running with
\* process_id the PID of the new process, the orchestrator is registered
\* under id, and a monitor thread for id has been started.
C13_StartSucceeds ==
    [][StartSucceeds
         => /\ InState(containers', call.id, RUNNING)
            /\ IF call.id \in DOMAIN containers'
               THEN containers'[call.id].process_id = thr[Caller].k
               ELSE FALSE
            /\ IF call.id \in DOMAIN omap'
               THEN omap'[call.id] = thr[Caller].k
               ELSE FALSE
            /\ thr'[thr[Caller].k].pc = "get"
            /\ thr'[thr[Caller].k].id = call.id]_vars

\* The caller's start(id) raises in this step after its state check passed:
\* either create_container_process failed or the registry update raised.
StartFails ==
    /\ LiveStep
    /\ call'.op = "start"
    /\ call'.res = "raised"
    /\ \/ Enters("start") /\ InState(containers, call'.id, CREATED)
       \/ thr[Caller].pc = "st_except"

\* C14: when start(id) fails after its state check, the caller gets the
\* start-failed error and the orchestrator of the call has been cleaned up:
\* it holds no PID afterwards, and no other orchestrator gained one.
C14_StartFailureCleansUp ==
    [][StartFails
         => /\ call'.err = "start_failed"
            /\ thr[Caller].pc = "st_except" => ~opid'[thr[Caller].k]
            /\ \A k \in Slots : opid'[k] => opid[k]]_vars

\* start failed at the registry update: the container is recorded Running,
\* the call raised start-failed and no orchestrator holds a PID.
C14_Witness ==
    /\ thr[Caller].pc = "idle"
    /\ call.op = "start" /\ call.res = "raised" /\ call.err = "start_failed"
    /\ InState(containers, call.id, RUNNING)
    /\ \A k \in Slots : ~opid[k]

\* The caller's stop(id) ends in this step, by returning or by raising.
StopEnds ==
    /\ LiveStep
    /\ call'.op = "stop"
    /\ thr'[Caller].pc = "idle"
    /\ call' # call

\* C15: stop(id) raises and changes neither the registry nor the
\* orchestrator map when id is unknown, not Running, or has no orchestrator
\* registered; a stop(id) called while id was Running with its orchestrator
\* registered and its process alive returns true with id recorded Exited.
\* (Stated for runs in which every save succeeds.)
C15_Stop ==
    [][/\ (Enters("stop") /\ ~InState(containers, call'.id, RUNNING))
            => call'.res = "raised" /\ RejectFrame
       /\ (/\ LiveStep
           /\ thr[Caller].pc = "sp_getorch" /\ thr'[Caller].pc # "sp_getorch"
           /\ call.id \notin DOMAIN omap)
            => call'.res = "raised" /\ UNCHANGED <<containers, regfile, omap>>
       /\ (StopEnds /\ NoIoFailure /\ call.alive)
            => call'.res = "ok" /\ InState(containers', call.id, EXITED)]_vars

C17_Monitor ==
    [][\A m \in Monitors :
         LiveStep =>
           /\ (thr[m].pc \in {"wait", "blocked"} /\ thr'[m].pc = "update")
                => thr'[m].hnd /\ thr'[m].code = -1
           /\ (thr[m].pc = "cleanup" /\ thr'[m].pc = "update")
                => ~thr'[m].hnd /\ thr'[m].code = thr[m].code
           /\ (/\ thr[m].pc = "update" /\ thr'[m] # thr[m]
               /\ thr[m].id \in DOMAIN containers)
                => /\ InState(containers', thr[m].id, EXITED)
                   /\ IF thr[m].id \in DOMAIN containers'
                      THEN containers'[thr[m].id].exit_code =
                               IF thr[m].hnd THEN -1 ELSE thr[m].code
                      ELSE FALSE
           /\ (thr[m].pc # "done" /\ thr'[m].pc = "done")
                => thr[m].id \notin DOMAIN omap']_vars

\* The wait path of a monitor raised; it has recorded Exited with exit code
\* -1 and is about to drop the orchestrator.
C17_Witness ==
    \E m \in Monitors :
        /\ thr[m].pc = "pop" /\ thr[m].hnd
        /\ InState(containers, thr[m].id, EXITED)
        /\ containers[thr[m].id].exit_code = -1

\* ---------------------------------------------------------------- create, in full
\* Specification SpecCreate: one caller calls ContainerManager.create again
\* and again on a manager on which nothing is started, with names, commands
\* and memory limits drawn from the sets below.  A string is a sequence of
\* one-character strings; a command is a sequence of strings.

\* constants.py lines 50-53.
MAX_CONTAINER_NAME_LENGTH == 64
ALLOWED_CONTAINER_NAME_CHARS ==
    {"a", "b", "c", "d", "e", "f", "g", "h", "i", "j", "k", "l", "m",
     "n", "o", "p", "q", "r", "s", "t", "u", "v", "w", "x", "y", "z",
     "A", "B", "C", "D", "E", "F", "G", "H", "I", "J", "K", "L", "M",
     "N", "O", "P", "Q", "R", "S", "T", "U", "V", "W", "X", "Y", "Z",
     "0", "1", "2", "3", "4", "5", "6", "7", "8", "9", "-", "_"}

\* constants.py lines 34-47.
DANGEROUS_COMMANDS ==
    {<<"r", "m">>, <<"r", "m", "d", "i", "r">>, <<"d", "d">>,
     <<"m", "k", "f", "s">>, <<"f", "d", "i", "s", "k">>,
     <<"p", "a", "r", "t", "e", "d">>, <<"m", "o", "u", "n", "t">>,
     <<"u", "m", "o", "u", "n", "t">>, <<"s", "u", "d", "o">>, <<"s", "u">>,
     <<"c", "h", "m", "o", "d">>, <<"c", "h", "o", "w", "n">>}

\* constants.py lines 6, 12, 18 and 22, with no environment override.
MINICON_MEMORY_LIMIT == 250 * 1024 * 1024
MINICON_ROOTFS_DIR ==
    <<"/", "v", "a", "r", "/", "l", "i", "b", "/", "m", "i", "n", "i", "c", "o", "n",
      "/", "r", "o", "o", "t", "f", "s">>

\* A name that accepts every string.
AnyName(name) == TRUE

\* validate_container_name, security.py lines 54-57.
validate_container_name(name) ==
    IF name = << >> \/ Len(name) > MAX_CONTAINER_NAME_LENGTH
    THEN FALSE
    ELSE \A i \in 1..Len(name) : name[i] \in ALLOWED_CONTAINER_NAME_CHARS

\* p.rfind(ch) + 1: the position of the last ch in p, 0 when there is none.
rfind1(p, ch) ==
    LET S == {i \in 1..Len(p) : p[i] = ch}
    IN  IF S = {} THEN 0 ELSE CHOOSE i \in S : \A j \in S : j <= i

\* os.path.basename(p): what follows the last slash.
basename(p) == SubSeq(p, rfind1(p, "/") + 1, Len(p))

\* A check that accepts every command.
AnyCommand(command) == TRUE

\* validate_command, security.py lines 69-79.
validate_command(command) ==
    IF command = << >>
    THEN FALSE
    ELSE IF basename(command[1]) \in DANGEROUS_COMMANDS THEN FALSE ELSE TRUE

\* Container(id=, name=, command=, hostname=, memory_limit=, root_fs=), with
\* the dataclass defaults of model.py lines 49-51.
Container(id, name, command, hostname, memory_limit, root_fs) ==
    [id |-> id, name |-> name, command |-> command, root_fs |-> root_fs,
     hostname |-> hostname, memory_limit |-> memory_limit,
     process_id |-> NoPid, state |-> CREATED, exit_code |-> 0,
     created_at |-> ImportTime, started_at |-> NoDate, exited_at |-> NoDate]

\* str(uuid.uuid4()): three of its values, the first two alike in their
\* first eight characters.
UuidTail(last) ==
    <<"-", "0", "0", "0", "0", "-", "4", "0", "0", "0", "-", "8", "0", "0", "0",
      "-", "0", "0", "0", "0", "0", "0", "0", "0", "0", "0", "0", last>>
Uuid4 ==
    {<<"1", "a", "2", "b", "3", "c", "4", "d">> \o UuidTail("1"),
     <<"1", "a", "2", "b", "3", "c", "4", "d">> \o UuidTail("2"),
     <<"9", "f", "8", "e", "7", "d", "6", "c">> \o UuidTail("3")}

\* str(uuid.uuid4())[:8], manager.py line 128.
container_id(u) == SubSeq(u, 1, 8)

\* f"{MINICON_ROOTFS_DIR}/{container_id}", manager.py line 299.
root_fs_path(id) == MINICON_ROOTFS_DIR \o <<"/">> \o id

\* The names a caller passes: empty, with every kind of allowed character,
\* the word of a dangerous command, with a space, with a slash, of 64 and
\* of 65 characters.
Names ==
    {<< >>,
     <<"d", "b", "-", "1", "_", "A">>,
     <<"r", "m">>,
     <<"w", "e", "b", " ", "1">>,
     <<"a", "/", "b">>,
     [i \in 1..MAX_CONTAINER_NAME_LENGTH |-> "a"],
     [i \in 1..(MAX_CONTAINER_NAME_LENGTH + 1) |-> "a"]}

\* The commands a caller passes: none, a path to a shell with an argument,
\* rm with an argument, rm by its path, echo with "rm" as its argument, a
\* path that ends in a slash, su.
Commands ==
    {<< >>,
     << <<"/", "b", "i", "n", "/", "s", "h">>, <<"-", "c">> >>,
     << <<"r", "m">>, <<"-", "r", "f">> >>,
     << <<"/", "b", "i", "n", "/", "r", "m">> >>,
     << <<"e", "c", "h", "o">>, <<"r", "m">> >>,
     << <<"r", "m", "/">> >>,
     << <<"s", "u">> >>}

MemoryLimits == {MINICON_MEMORY_LIMIT, 1024 * 1024}

\* Every call counts against MaxCreates.  What create leaves alone.
CreateFrame ==
    /\ creates' = creates + 1
    /\ UNCHANGED <<omap, opid, proc, pstat, thr, call, restarts, ioerrs, wrote, leaf, procvars, unitvars>>

\* manager.py lines 122-123: the name is not valid.
CreateInvalidName ==
    /\ creates < MaxCreates
    /\ \E name \in Names, command \in Commands, memory_limit \in MemoryLimits :
         /\ ~validate_container_name(name)
         /\ req' = [name |-> name, command |-> command, memory_limit |-> memory_limit,
                    res |-> "raised", err |-> "invalid_name", id |-> << >>]
    /\ UNCHANGED <<containers, regfile, tmpfile, rootfs, uuids>>
    /\ CreateFrame

\* manager.py lines 125-126: the name is valid, the command is not.
CreateInvalidCommand ==
    /\ creates < MaxCreates
    /\ \E name \in Names, command \in Commands, memory_limit \in MemoryLimits :
         /\ validate_container_name(name)
         /\ ~validate_command(command)
         /\ req' = [name |-> name, command |-> command, memory_limit |-> memory_limit,
                    res |-> "raised", err |-> "invalid_command", id |-> << >>]
    /\ UNCHANGED <<containers, regfile, tmpfile, rootfs, uuids>>
    /\ CreateFrame

\* manager.py lines 128-129: the id is drawn and _prepare_root_fs raises
\* (makedirs, SecurityError), before or after it made the directory.
CreatePrepareFails ==
    /\ creates < MaxCreates
    /\ uuids' = uuids + 1
    /\ \E name \in Names, command \in Commands, memory_limit \in MemoryLimits,
          u \in Uuid4, made \in BOOLEAN :
         /\ validate_container_name(name)
         /\ validate_command(command)
         /\ rootfs' = IF made THEN rootfs \cup {container_id(u)} ELSE rootfs
         /\ req' = [name |-> name, command |-> command, memory_limit |-> memory_limit,
                    res |-> "raised", err |-> "rootfs", id |-> container_id(u)]
    /\ UNCHANGED <<containers, regfile, tmpfile>>
    /\ CreateFrame

\* manager.py lines 128-138 and registry.py line 76, then _save_to_file
\* raises: the container is in the map, the file is as it was, and the temp
\* file is untouched or cut short.
CreateSaveFails ==
    /\ creates < MaxCreates
    /\ uuids' = uuids + 1
    /\ \E name \in Names, command \in Commands, memory_limit \in MemoryLimits,
          u \in Uuid4, opened \in BOOLEAN :
         LET id == container_id(u) IN
         /\ validate_container_name(name)
         /\ validate_command(command)
         /\ rootfs' = rootfs \cup {id}
         /\ containers' = DictSet(containers, id,
                              Container(id, name, command, name, memory_limit,
                                        root_fs_path(id)))
         /\ tmpfile' = IF opened THEN Partial ELSE tmpfile
         /\ req' = [name |-> name, command |-> command, memory_limit |-> memory_limit,
                    res |-> "raised", err |-> "io", id |-> id]
    /\ UNCHANGED regfile
    /\ CreateFrame

\* manager.py lines 122-139 when nothing raises: validate, draw the id,
\* prepare the root filesystem, build the Container, save_container (the
\* map, then the whole map written to the temp file and renamed), return.
CreateReturns ==
    /\ creates < MaxCreates
    /\ uuids' = uuids + 1
    /\ \E name \in Names, command \in Commands, memory_limit \in MemoryLimits,
          u \in Uuid4 :
         LET id == container_id(u) IN
         /\ validate_container_name(name)
         /\ validate_command(command)
         /\ rootfs' = rootfs \cup {id}
         /\ containers' = DictSet(containers, id,
                              Container(id, name, command, name, memory_limit,
                                        root_fs_path(id)))
         /\ regfile' = Json(Serialize(containers'))
         /\ tmpfile' = Absent
         /\ req' = [name |-> name, command |-> command, memory_limit |-> memory_limit,
                    res |-> "ok", err |-> "-", id |-> id]
    /\ CreateFrame

NextCreate ==
    \/ CreateInvalidName
    \/ CreateInvalidCommand
    \/ CreatePrepareFails
    \/ CreateSaveFails
    \/ CreateReturns

SpecCreate == Init /\ [][NextCreate]_vars

\* The characters of [A-Za-z0-9_-].
Letters ==
    {"a", "b", "c", "d", "e", "f", "g", "h", "i", "j", "k", "l", "m",
     "n", "o", "p", "q", "r", "s", "t", "u", "v", "w", "x", "y", "z"}
Capitals ==
    {"A", "B", "C", "D", "E", "F", "G", "H", "I", "J", "K", "L", "M",
     "N", "O", "P", "Q", "R", "S", "T", "U", "V", "W", "X", "Y", "Z"}
Digits == {"0", "1", "2", "3", "4", "5", "6", "7", "8", "9"}

\* A valid name: not empty, at most 64 characters, each a letter, a digit,
\* an underscore or a hyphen.
NameIsValid(name) ==
    /\ Len(name) >= 1
    /\ Len(name) <= 64
    /\ \A i \in DOMAIN name : name[i] \in Letters \cup Capitals \cup Digits \cup {"_", "-"}

\* A valid command: not empty, and the part of its first word after the
\* last slash is not a dangerous command.
CommandIsValid(command) ==
    /\ Len(command) >= 1
    /\ \A d \in DANGEROUS_COMMANDS :
         \/ Len(command[1]) < Len(d)
         \/ SubSeq(command[1], Len(command[1]) - Len(d) + 1, Len(command[1])) # d
         \/ /\ Len(command[1]) > Len(d)
            /\ command[1][Len(command[1]) - Len(d)] # "/"

\* The last create call was rejected by validation.
Rejected == req.res = "raised" /\ req.err \in {"invalid_name", "invalid_command"}

\* C18: a create call gets past validation exactly when its name is valid
\* and its command is valid, each judged by itself.
C18_ValidationComposes ==
    req.res # "-" => (~Rejected <=> (NameIsValid(req.name) /\ CommandIsValid(req.command)))

\* A create whose name is the word of a dangerous command, and whose
\* command has that word only as an argument, was accepted.
C18_Witness ==
    /\ req.res = "ok"
    /\ req.name = <<"r", "m">>
    /\ req.command = << <<"e", "c", "h", "o">>, <<"r", "m">> >>

\* C19: a create call with an invalid name or an invalid command is
\* rejected, and the rejection changes nothing: the registry map, the
\* registry file and its temp file are as before, no id has been drawn and
\* no root filesystem has been prepared.
C19_RejectedCreatePersistsNothing ==
    [][(/\ creates' = creates + 1
        /\ ~NameIsValid(req'.name) \/ ~CommandIsValid(req'.command))
          => /\ req'.res = "raised"
             /\ req'.err \in {"invalid_name", "invalid_command"}
             /\ req'.id = << >>
             /\ UNCHANGED <<containers, regfile, tmpfile, rootfs, uuids>>]_vars

\* A create was rejected for its command on a registry that already holds
\* a saved container.
C19_Witness ==
    /\ req.res = "raised" /\ req.err = "invalid_command"
    /\ DOMAIN containers # {}
    /\ regfile = Json(Serialize(containers))
    /\ DOMAIN containers = rootfs
    /\ uuids = 1

\* A create call returns an id in this step, made on a registry whose file
\* holds what its map holds (no earlier save has failed).
CreateSucceeds ==
    /\ creates' = creates + 1
    /\ req'.res = "ok"
    /\ load_containers(regfile) = containers

\* C20: a successful create returns an 8-character id and adds exactly one
\* container to the registry, under that id: Created, with the name, the
\* command and the memory limit of the call, hostname equal to the name,
\* root_fs <rootfs base>/<id> and no process id; every other entry is as it
\* was.
C20_CreateAddsOneContainer ==
    [][CreateSucceeds
         => /\ Len(req'.id) = 8
            /\ DOMAIN containers' = DOMAIN containers \cup {req'.id}
            /\ Cardinality(DOMAIN containers') = Cardinality(DOMAIN containers) + 1
            /\ LET c == containers'[req'.id] IN
                 /\ c.id = req'.id
                 /\ c.state = CREATED
                 /\ c.name = req'.name
                 /\ c.command = req'.command
                 /\ c.hostname = req'.name
                 /\ c.memory_limit = req'.memory_limit
                 /\ c.root_fs = MINICON_ROOTFS_DIR \o <<"/">> \o req'.id
                 /\ c.process_id = NoPid
            /\ \A other \in DOMAIN containers \ {req'.id} :
                 containers'[other] = containers[other]]_vars

\* C21: list(filter) returns, gives exactly the containers whose state is
\* the filter (all of them when there is no filter), and changes nothing.
C21_List ==
    [][(Enters("list") /\ DOMAIN containers # {})
         => /\ call'.res = "ok"
            /\ RejectFrame
            /\ \A f \in Filters :
                 /\ ~list(containers, f).raised
                 /\ list(containers, f).value =
                        {id \in DOMAIN containers : f = None \/ containers[id].state = f}]_vars

\* ================================================================ the registry alone
\* Specification SpecRegistry: one caller calls save_container,
\* update_container_state and remove_container of a ContainerRegistry
\* (src/container/registry.py) directly, with ids that are in the map and
\* ids that are not; rcall holds what the last call returned.

\* The **kwargs a caller passes to update_container_state: none, a process
\* id, an exit code, and a keyword that is no attribute of Container.
Kwargs ==
    {EmptyMap,
     [k \in {"process_id"} |-> 1],
     [k \in {"exit_code"} |-> 1],
     [k \in {"exit_code"} |-> -1],
     [k \in {"colour"} |-> 1]}

\* Lines 117-122: container.state = new_state, then setattr for every
\* keyword the container has an attribute for.
SetAttrs(c, new_state, kwargs) ==
    [f \in DOMAIN c |->
        IF f \in DOMAIN kwargs THEN kwargs[f]
        ELSE IF f = "state" THEN new_state ELSE c[f]]

\* A registry that answers True for an id it does not hold.
AbsentReturnsTrue == TRUE

\* Lines 115 and 141: return False.
AbsentReturn == FALSE

\* Lines 114 and 137: container_id in self._containers.
Present(cs, id) == id \in DOMAIN cs

\* _save_to_file run to its end by a thread that has the files to itself:
\* it returns with the whole map in the registry file and no temp file, or
\* it raises with the registry file as it was and the temp file untouched
\* (makedirs or open failed), cut short (json.dump failed) or whole
\* (os.replace failed).
RegSaveFile(op, id, cs) ==
    \E outcome \in (IF ioerrs < MaxIoErrors THEN {"ok", "open", "dump", "replace"} ELSE {"ok"}) :
        IF outcome = "ok"
        THEN /\ regfile' = Json(Serialize(cs))
             /\ tmpfile' = Absent
             /\ ioerrs' = ioerrs
             /\ rcall' = [op |-> op, id |-> id, ret |-> TRUE, raised |-> FALSE]
        ELSE /\ regfile' = regfile
             /\ tmpfile' = CASE outcome = "dump" -> Partial
                              [] outcome = "replace" -> Json(Serialize(cs))
                              [] OTHER -> tmpfile
             /\ ioerrs' = ioerrs + 1
             /\ rcall' = [op |-> op, id |-> id, ret |-> FALSE, raised |-> TRUE]

\* What the registry calls leave alone.
RegFrame ==
    UNCHANGED <<omap, opid, proc, pstat, thr, call, restarts, creates, wrote, leaf,
                procvars, createvars, rt>>

\* save_container, lines 76-77 (it returns None; ret records that it returned).
RegSave ==
    /\ \E id \in IDs :
         /\ containers' = DictSet(containers, id, NewContainer)
         /\ RegSaveFile("save", id, containers')
    /\ RegFrame

\* update_container_state, lines 114-125.
RegUpdate ==
    /\ \E id \in IDs, new_state \in State, kwargs \in Kwargs :
         IF Present(containers, id)
         THEN /\ containers' = DictSet(containers, id,
                                   SetAttrs(containers[id], new_state, kwargs))
              /\ RegSaveFile("update", id, containers')
         ELSE /\ rcall' = [op |-> "update", id |-> id, ret |-> AbsentReturn, raised |-> FALSE]
              /\ UNCHANGED <<containers, regfile, tmpfile, ioerrs>>
    /\ RegFrame

\* remove_container, lines 137-141.
RegRemove ==
    /\ \E id \in IDs :
         IF Present(containers, id)
         THEN /\ containers' = DictDel(containers, id)
              /\ RegSaveFile("remove", id, containers')
         ELSE /\ rcall' = [op |-> "remove", id |-> id, ret |-> AbsentReturn, raised |-> FALSE]
              /\ UNCHANGED <<containers, regfile, tmpfile, ioerrs>>
    /\ RegFrame

NextRegistry == RegSave \/ RegUpdate \/ RegRemove

SpecRegistry == Init /\ [][NextRegistry]_vars

\* C22: update_container_state and remove_container return True exactly
\* when the id was in the map (stated for calls that do not raise), and for
\* an id that was not they change neither the map nor the registry file.
C22_ReturnsWhetherPresent ==
    [][(rcall' # rcall /\ rcall'.op \in {"update", "remove"})
         => /\ ~rcall'.raised => (rcall'.ret <=> rcall'.id \in DOMAIN containers)
            /\ rcall'.id \notin DOMAIN containers
                 => /\ ~rcall'.raised /\ ~rcall'.ret
                    /\ UNCHANGED <<containers, regfile, tmpfile>>]_vars

\* An update of an id that is not in a non-empty, saved registry returned
\* False.
C22_Witness ==
    /\ rcall.op = "update" /\ ~rcall.ret /\ ~rcall.raised
    /\ rcall.id \notin DOMAIN containers
    /\ DOMAIN containers # {}
    /\ regfile = Json(Serialize(containers))

json_dumps(d) ==
    [raised |-> \E f \in DOMAIN d \cap DateFields : d[f].type = "datetime",
     json |-> d]
json_loads(t) == t.json

\* Lines 107 and 123.
to_json(c) == json_dumps(to_dict(c))
from_json(t) == from_dict(json_loads(t))

\* Containers to serialize: in every state, with and without a process id,
\* an exit code, a start time and an exit time.
SampleContainers ==
    LET base == Container(<<"1", "a", "2", "b", "3", "c", "4", "d">>,
                          <<"d", "b", "-", "1", "_", "A">>,
                          << <<"/", "b", "i", "n", "/", "s", "h">>, <<"-", "c">> >>,
                          <<"d", "b", "-", "1", "_", "A">>,
                          MINICON_MEMORY_LIMIT,
                          root_fs_path(<<"1", "a", "2", "b", "3", "c", "4", "d">>))
    IN  {[base EXCEPT !.state = st, !.process_id = pid, !.exit_code = ec,
                      !.created_at = ca, !.started_at = sa, !.exited_at = ea] :
            st \in State, pid \in {NoPid, 1}, ec \in {0, 1, -1},
            ca \in {ImportTime, DateTime(1)}, sa \in {NoDate, DateTime(2)},
            ea \in {NoDate, DateTime(3)}}

InitJson ==
    /\ MgrInit /\ ProcIdle /\ CreateIdle
    /\ rcall = [op |-> "none", id |-> 0, ret |-> FALSE, raised |-> FALSE]
    /\ rt \in {[pc |-> "obj", c |-> c] : c \in SampleContainers}

\* to_json(c).
RtToJson ==
    /\ rt.pc = "obj"
    /\ rt' = IF to_json(rt.c).raised
             THEN [pc |-> "raised", c |-> rt.c]
             ELSE [pc |-> "text", c |-> rt.c, text |-> to_json(rt.c)]
    /\ UNCHANGED <<mgrvars, procvars, createvars, rcall>>

\* from_json(text).
RtFromJson ==
    /\ rt.pc = "text"
    /\ rt' = [pc |-> "back", c |-> rt.c, back |-> from_json(rt.text)]
    /\ UNCHANGED <<mgrvars, procvars, createvars, rcall>>

NextJson == RtToJson \/ RtFromJson

SpecJson == InitJson /\ [][NextJson]_vars

\* C24: to_json never fails, and from_json(to_json(c)) has the fields of c,
\* each with the value it has in c.
C24_JsonRoundTrip ==
    /\ rt.pc # "raised"
    /\ rt.pc = "back"
         => /\ DOMAIN rt.back = DOMAIN rt.c
            /\ \A f \in DOMAIN rt.c : rt.back[f] = rt.c[f]

\* An Exited container with a process id, an exit code of -1, a start time
\* and an exit time has been written and read back.
C24_Witness ==
    /\ rt.pc = "back"
    /\ rt.c.state = EXITED /\ rt.c.process_id = 1 /\ rt.c.exit_code = -1
    /\ rt.c.started_at = DateTime(2) /\ rt.c.exited_at = DateTime(3)

\* C25: in the registry a Created container has no process id, a Running
\* container has one, and an Exited container has none once the call or the
\* monitor that recorded Exited has finished.  (Stated for runs without a
\* failed save and without a restart.)
C25_PidIffRunning ==
    (ioerrs = 0 /\ restarts = 0) =>
        \A id \in DOMAIN containers :
            /\ containers[id].state = CREATED => containers[id].process_id = NoPid
            /\ containers[id].state = RUNNING => containers[id].process_id # NoPid
            /\ (/\ containers[id].state = EXITED
                /\ thr[Caller].pc = "idle"
                /\ \A m \in Monitors : thr[m].pc \in {"none", "done"})
                  => containers[id].process_id = NoPid

\* C26: a container that is or has been Running has a started_at, not
\* earlier than its created_at, and an Exited container has an exited_at,
\* not earlier than its started_at.
C26_Timestamps ==
    \A id \in DOMAIN containers :
        /\ containers[id].state \in {RUNNING, EXITED}
             => /\ containers[id].started_at.type = "datetime"
                /\ containers[id].started_at.v >= containers[id].created_at.v
        /\ containers[id].state = EXITED
             => /\ containers[id].exited_at.type = "datetime"
                /\ containers[id].exited_at.v >= containers[id].started_at.v

\* C27: a Created or Running container has no exit code (its exit_code is
\* None, not a number), and an Exited container has one, -1 when the exit
\* is unknown or abnormal.
C27_ExitCodeOnlyWhenExited ==
    \A id \in DOMAIN containers :
        /\ containers[id].state \in {CREATED, RUNNING} => containers[id].exit_code \notin Int
        /\ containers[id].state = EXITED => containers[id].exit_code \in Int

\* C29: create_container_process does its parent-side steps in the order
\* command check, user unshare (only when not root), mount, UTS and PID
\* unshare, cgroup pre-creation, pipe, fork: each step has happened only
\* when the steps before it have; with no command set it raises and none
\* of them happens.
C29_ParentOrder ==
    /\ ~env.cmd => /\ ppc \in {"check", "raised"}
                   /\ unshared = {}
                   /\ ~cgroup.id
                   /\ pipe = "none"
                   /\ cpc = "none"
    /\ "user" \in unshared => ~env.root
    /\ "mount" \in unshared => (env.root \/ "user" \in unshared)
    /\ "uts" \in unshared => "mount" \in unshared
    /\ "pid" \in unshared => "uts" \in unshared
    /\ cgroup.id => "pid" \in unshared
    /\ pipe # "none" => ("pid" \in unshared /\ (env.mem => cgroup.id))
    /\ cpc # "none" => pipe # "none"

C29_Witness ==
    /\ ~env.root /\ env.mem
    /\ unshared = {"user", "mount", "uts", "pid"}
    /\ cgroup.id
    /\ pipe = "open"
    /\ cpc = "blocked"

\* C30: when the parent writes "go" to the pipe and a cgroup has been
\* pre-created with its memory limit, the container PID is already in that
\* cgroup's cgroup.procs.
C30_AttachBeforeGo ==
    [][(pipe # "go" /\ pipe' = "go" /\ cgroup.limit) => cgroup.procs]_vars

\* The _save_to_file of thread t raises in this step: its os.replace finds
\* no temp file.
ReplaceRaises(t) ==
    /\ LiveStep
    /\ thr[t].pc = "sv_replace"
    /\ thr'[t].pc # "sv_replace"
    /\ tmpfile.kind = "absent"

\* C28: when the file write of a registry mutation fails, the registry file
\* is as it was before that save (the failing save has put nothing into it),
\* the registry map keeps the mutation, and a caller outside start gets the
\* error.
C28_FailedSaveLeavesFile ==
    [][/\ (LiveStep /\ ioerrs' = ioerrs + 1) => regfile' = regfile
       /\ \A t \in Threads :
            ReplaceRaises(t)
              => /\ ~wrote[t]
                 /\ regfile' = regfile
                 /\ containers' = containers
                 /\ (t = Caller /\ call.op # "start") => call'.res = "raised"]_vars

\* terminate returns in this step (its last statement, cleanup_resources,
\* is done by the caller thread inside stop).
TerminateReturns ==
    /\ LiveStep
    /\ thr[Caller].pc = "sp_cleanup"
    /\ thr'[Caller].pc = "sp_update"

\* C31: whenever terminate returns, the container process it was called on
\* no longer runs, also when the process ignores SIGTERM.
C31_TerminateEndsProcess ==
    [][TerminateReturns => proc'[thr[Caller].k] # "running"]_vars

\* C32: when start(id) fails after its state check, the container is as it
\* was before the call: recorded Created with no process id, no orchestrator
\* registered for it, and the process the call forked (if any) not running.
C32_FailedStartLeavesCreated ==
    [][StartFails
         => /\ InState(containers', call'.id, CREATED)
            /\ containers'[call'.id].process_id = NoPid
            /\ call'.id \notin DOMAIN omap'
            /\ thr[Caller].pc = "st_except" => proc'[thr[Caller].k] # "running"]_vars

\* The exit code the claim gives a wait status: the exit status of a normal
\* exit, 128 plus the signal number (SIGTERM is 15) of a signalled one, -1
\* otherwise.
ClaimedExitCode(status) ==
    CASE status = "exit0" -> 0
      [] status = "exit1" -> 1
      [] status = "sigterm" -> 128 + 15
      [] OTHER -> -1

\* C33: when the waitpid of wait_for_exit returns, the exit code it derives
\* is the exit status of a normal exit and 128 plus the signal number of a
\* signalled one, and cleanup_resources is what runs next.
C33_WaitForExitCode ==
    [][\A m \in Monitors :
          (LiveStep /\ thr[m].pc = "blocked" /\ proc[thr[m].k] = "zombie" /\ thr'[m] # thr[m])
            => /\ thr'[m].code = ClaimedExitCode(pstat[thr[m].k])
               /\ thr'[m].pc = "cleanup"]_vars

\* C34: a terminate that starts with a known PID never raises, whatever
\* os.kill and os.waitpid do (the process already reaped included), and it
\* returns only after cleanup_resources has cleared the PID.
C34_TerminateAlwaysCleansUp ==
    [][LiveStep =>
         /\ (thr[Caller].pc = "sp_kill" /\ opid[thr[Caller].k])
              => /\ thr'[Caller].pc \in {"sp_kill", "sp_waitpid", "sp_cleanup"}
                 /\ call'.res # "raised"
         /\ thr[Caller].pc = "sp_waitpid"
              => /\ thr'[Caller].pc \in {"sp_waitpid", "sp_cleanup"}
                 /\ call'.res # "raised"
         /\ (thr[Caller].pc = "sp_cleanup" /\ thr'[Caller] # thr[Caller])
              => /\ thr'[Caller].pc = "sp_update"
                 /\ ~opid'[thr[Caller].k]
                 /\ call'.res # "raised"]_vars

\* terminate has returned, having cleaned up, for a process the monitor had
\* already reaped (the monitor's own cleanup is still to come).
C34_Witness ==
    /\ thr[Caller].pc = "sp_update"
    /\ call.op = "stop"
    /\ proc[thr[Caller].k] = "reaped"
    /\ ~opid[thr[Caller].k]
    /\ \E m \in Monitors : thr[m].pc = "cleanup" /\ thr[m].k = thr[Caller].k

\* C35: when the parent died before writing "go" (the child's read saw end
\* of file), the child has applied no mount or UTS isolation, dropped no
\* privileges and exec'ed nothing.
C35_EofStopsChild ==
    pipe = "eof" => (childdid = {} /\ cpc # "running")

\* C36: for every container of the registry whose process has ended and
\* been reaped, once the calls and monitors at work have finished, the
\* cgroup leaf made for that process has been removed and its orchestrator
\* holds no PID; also when the runtime was restarted while the process was
\* alive.
C36_CgroupCleanedUp ==
    (/\ thr[Caller].pc = "idle"
     /\ \A m \in Monitors : thr[m].pc \in {"none", "done"})
       => \A id \in DOMAIN containers : \A k \in Slots :
            (containers[id].process_id = k /\ proc[k] = "reaped")
               => (leaf[k] # "made" /\ ~opid[k])

\* The same for runs without a restart and without a failed save.
CgroupCleanedUpWithoutRestart == (restarts = 0 /\ ioerrs = 0) => C36_CgroupCleanedUp

\* C37: whenever no thread is inside a registry mutation and no save has
\* failed so far (none failed to open its file, the caller's last call did
\* not raise, no monitor is handling an exception), loading the registry
\* file yields exactly the registry map.  (Stated for runs in which every
\* create added a new id and nothing was removed.)
C37_FileMatchesMap ==
    (/\ Saving = {}
     /\ restarts = 0
     /\ ioerrs = 0
     /\ call.res # "raised"
     /\ \A m \in Monitors : ~thr[m].hnd
     /\ Cardinality(DOMAIN containers) = creates
     /\ DOMAIN containers # {})
       => load_containers(regfile) = containers

\* C38: within one Manager, remove(id) returns only once id is out of the
\* registry map, and no step but a create puts an id into the map: a
\* monitor whose Exited update arrives after the removal adds nothing, so
\* get(id) stays None and id stays out of every listing.
C38_RemovedStaysRemoved ==
    [][LiveStep =>
         /\ (thr[Caller].pc = "rm_pop" /\ thr'[Caller].pc = "idle")
              => call.id \notin DOMAIN containers'
         /\ creates' = creates
              => DOMAIN containers' \subseteq DOMAIN containers
         /\ \A m \in Monitors :
              (/\ thr[m].pc = "update" /\ thr'[m] # thr[m]
               /\ thr[m].id \notin DOMAIN containers)
                 => /\ containers' = containers
                    /\ thr'[m].pc = "pop"]_vars

\* remove(id) has succeeded while the monitor of id still has its Exited
\* update to make.
C38_Witness ==
    /\ call.op = "remove" /\ call.res = "ok"
    /\ thr[Caller].pc = "idle"
    /\ \E m \in Monitors :
         /\ thr[m].pc = "update"
         /\ thr[m].id = call.id
         /\ thr[m].id \notin DOMAIN containers

\* C39: no cgroup step fails create_container_process: pre-creation goes on
\* to the pipe whether or not the leaf and memory.max were written, and the
\* attach step, reached only with the child forked and signalled, returns
\* the PID whether or not cgroup.procs was written.
C39_CgroupFailureNotFatal ==
    [][/\ (ppc = "precgroup" /\ ppc' # ppc) => ppc' = "pipe"
       /\ (ppc = "attach" /\ ppc' # ppc)
            => /\ ppc' = "returned"
               /\ pipe = "go"
               /\ cpc # "none"]_vars

\* create_container_process has returned with a memory limit configured and
\* the leaf never made: the child was forked and signalled without a limit.
C39_Witness ==
    /\ ppc = "returned"
    /\ env.mem
    /\ cgroup.id /\ ~cgroup.dir /\ ~cgroup.limit /\ ~cgroup.procs
    /\ pipe = "go"
    /\ cpc # "none"

\* C40: as root the parent never unshares a user namespace and never writes
\* setgroups, uid_map or gid_map, and the child never drops privileges;
\* unprivileged with mappings configured, the user namespace is unshared
\* before the fork and, once the three files are written, a child that has
\* exec'ed has dropped privileges first.
C40_RootMode ==
    /\ env.root => /\ "user" \notin unshared
                   /\ idmaps = {}
                   /\ "drop" \notin childdid
    /\ idmaps # {} => env.maps
    /\ (~env.root /\ env.maps)
         => /\ cpc # "none" => "user" \in unshared
            /\ ("exec" \in childdid /\ idmaps = AllMaps) => "drop" \in childdid

====
